---------------------------- MODULE Spec2Model ----------------------------
(***************************************************************************)
(* The replication state of src/src/plugins/replication/index.ts           *)
(* (RxReplicationStateBase): one replication identity on one collection,   *)
(* its promise chain of cycles, the push and pull handlers, the local      *)
(* storage with its change feed and the checkpoint.                        *)
(*                                                                         *)
(* Every await of the source is a suspension point: a cycle is a task with *)
(* a position (pc) and its local variables, and one action resumes it at   *)
(* one await and runs the synchronous code up to the next await.  Callers  *)
(* of run() and cancel(), the collection's teardown, other local writers   *)
(* and the retry timers interleave at those points.                        *)
(***************************************************************************)
EXTENDS Integers, Sequences, FiniteSets, TLC

\* ------------------------------------------------------------------ bounds

\* cycles ever chained onto runningPromise in one behaviour
MaxRuns == 2
\* entries of the local change feed (local writes and pulled documents)
MaxSeq == 1
\* entries of the local change feed in a behaviour of SpecData
MaxDataSeq == 2
\* cycles ever chained in a behaviour of SpecQueue, where nothing is written
MaxQueueRuns == 4
\* entries of the local change feed in a behaviour of SpecLive
MaxLiveSeq == 2
\* cycles ever chained in a behaviour of SpecPoll
MaxPollRuns == 3

\* ------------------------------------------------------------- the domain

Ids == {"a", "b"}
Contents == {"X"}
BatchSizes == {1}

\* the replicationIdentifier of this state
Identity == "I"

\* the wire documents (WithDeleted<T>: the user's fields, no _rev)
WireDocs == [id : Ids, content : Contents]
\* getLastPullDocument() before the first pull: null
NullDoc == [id |-> "-", content |-> "-"]

\* a place of local storage that holds no document
NoDoc == [content |-> "-", height |-> 0, hash |-> [rep |-> "-", digest |-> "-"], by |-> "-"]

\* the pages a pull handler can return: documents with distinct ids
Pages ==
    { <<>> } \cup { <<d>> : d \in WireDocs }
    \cup { <<d, e>> : d \in { x \in WireDocs : x.id = "a" }, e \in { x \in WireDocs : x.id = "b" } }

\* --------------------------------------------------------------- the state

VARIABLES
    cfg,              \* the constructor's arguments: live, push, pull, batchSize
    destroyed,        \* collection.destroyed
    canceled,         \* subjects.canceled (BehaviorSubject value)
    active,           \* subjects.active
    irc,              \* subjects.initialReplicationComplete
    subsActive,       \* the subscriptions of subs are still subscribed
    runQueueCount,    \* runQueueCount
    runCount,         \* runCount
    cycles,           \* the callbacks chained onto runningPromise, oldest first
    retryTimers,      \* pending setTimeout(() => this.run(), retryTime)
    docs,             \* local storage: id -> stored document
    feed,             \* the change feed of local storage: the id changed at each sequence
    lastPushSequence, \* checkpoint
    lastPullDocument, \* checkpoint
    last,             \* what the last step did: the operation, its return, the emissions
    budget,           \* what the environment may still do: runs chained, feed entries
    ctl,              \* replicateRxCollection: how far it is, its options
    events            \* change events of collection.$ not yet handed to the subscriber

vars == <<cfg, destroyed, canceled, active, irc, subsActive, runQueueCount, runCount,
          cycles, retryTimers, docs, feed, lastPushSequence, lastPullDocument, last,
          budget, ctl, events>>

\* the state of the program without the record of the last step
progVars == <<cfg, destroyed, canceled, active, irc, subsActive, runQueueCount, runCount,
              cycles, retryTimers, docs, feed, lastPushSequence, lastPullDocument,
              ctl, events>>

\* ----------------------------------------------------------- revision flag

\* getHeightOfRevision(rev): the number before the '-'
getHeightOfRevision(doc) == doc.height

\* createRevisionForPulledDocument(identity, doc): a digest of the content
\* mixed with the identity
createRevisionForPulledDocument(identity, doc) == [rep |-> identity, digest |-> doc.content]

\* wasRevisionfromPullReplication(identity, rev): the hash part carries the identity
wasRevisionfromPullReplication(identity, hash) == hash.rep = identity

\* the revision hash of a write of another local writer
LocalHash(content) == [rep |-> "local", digest |-> content]

\* ---------------------------------------------------------------- isStopped

isStopped ==
    \/ destroyed
    \/ (~cfg.live /\ irc)
    \/ canceled

\* ------------------------------------------------------- collection.$ events

\* replicateRxCollection subscribed to collection.$: live and push, after the
\* construction, until cancel() unsubscribes subs
Subscribed == ctl.phase = "running" /\ cfg.live /\ cfg.push /\ subsActive

\* the change event of a write of a document of the collection
ChangeOf(id, hash, by) == [id |-> id, hash |-> hash, by |-> by, isLocal |-> FALSE]

\* the change event of a write of a checkpoint, which is a local document
CheckpointChange ==
    [id |-> "checkpoint", hash |-> [rep |-> "local", digest |-> "-"], by |-> "checkpoint",
     isLocal |-> TRUE]

\* collection.$ hands the events of a write to the subscriber
Emit(es) == IF Subscribed THEN events \o es ELSE events

\* ------------------------------------------------------------------- tasks

\* a callback chained onto runningPromise that has not started
NewTask(retryOnFail) ==
    [retry |-> retryOnFail, pc |-> "queued", nested |-> FALSE, interrupted |-> FALSE,
     rows |-> <<>>, lastSeq |-> 0, latest |-> NullDoc, pulled |-> <<>>, hasMore |-> FALSE,
     toStore |-> <<>>]

\* the local variables of runPush() and runPull() are dead outside of them
ClearLocals(t) ==
    [t EXCEPT !.rows = <<>>, !.lastSeq = 0, !.latest = NullDoc, !.pulled = <<>>,
              !.hasMore = FALSE, !.toStore = <<>>]

InFlight == { i \in DOMAIN cycles : cycles[i].pc # "queued" }
Queued == { i \in DOMAIN cycles : cycles[i].pc = "queued" }

RECURSIVE ReservedFrom(_)
\* feed entries that the pulled pages in flight are still going to write
ReservedFrom(i) ==
    IF i > Len(cycles) THEN 0
    ELSE (IF cycles[i].pc \in {"findDocs", "bulkAdd"} THEN Len(cycles[i].pulled) ELSE 0)
         + ReservedFrom(i + 1)

Remove(s, i) == SubSeq(s, 1, i - 1) \o SubSeq(s, i + 1, Len(s))

\* ------------------------------------------------- the record of one step

NoStep ==
    [op |-> "init", ret |-> "-", emits |-> <<>>, called |-> "-", arg |-> <<>>,
     interrupted |-> FALSE]

Step(op, ret, emits) ==
    [op |-> op, ret |-> ret, emits |-> emits, called |-> "-", arg |-> <<>>,
     interrupted |-> FALSE]

Emitted(subject) == { k \in DOMAIN last.emits : last.emits[k][1] = subject }

\* --------------------------------------------------------- change collector

RECURSIVE Collect(_, _, _, _)
\* the feed from sequence k on: rows of at most batchSize distinct ids, the latest
\* change of each, without the documents whose current revision came from the pull
Collect(k, rows, lastSeq, batchSize) ==
    IF k > Len(feed) THEN [rows |-> rows, lastSequence |-> lastSeq]
    ELSE LET id == feed[k]
             at == { j \in DOMAIN rows : rows[j].id = id }
         IN  IF wasRevisionfromPullReplication(Identity, docs[id].hash)
             THEN Collect(k + 1, rows, k, batchSize)
             ELSE IF at # {}
             THEN Collect(k + 1,
                          [j \in DOMAIN rows |->
                              IF j \in at THEN [rows[j] EXCEPT !.sequence = k] ELSE rows[j]],
                          k, batchSize)
             ELSE IF Len(rows) >= batchSize
             THEN [rows |-> rows, lastSequence |-> lastSeq]
             ELSE Collect(k + 1,
                          Append(rows, [id |-> id, doc |-> docs[id], sequence |-> k]),
                          k, batchSize)

getChangesSinceLastPushSequence(batchSize) ==
    Collect(lastPushSequence + 1, <<>>, lastPushSequence, batchSize)

\* ------------------------------------------------------------------ run()

\* callbacks chained and not yet finished, plus the finished ones
Created == runCount + Cardinality(Queued)

RunQueueFullOff == runQueueCount > 3
\* run(): if (this.runQueueCount > 2) return this.runningPromise
RunQueueFull == runQueueCount > 2

\* the body of run(retryOnFail), called by `op`
RunBody(retryOnFail, op) ==
    IF isStopped
    THEN /\ UNCHANGED <<runQueueCount, cycles>>
         /\ last' = Step(op, "stopped", <<>>)
    ELSE IF RunQueueFull
    THEN /\ UNCHANGED <<runQueueCount, cycles>>
         /\ last' = Step(op, "full", <<>>)
    ELSE /\ runQueueCount' = runQueueCount + 1
         /\ cycles' = Append(cycles, NewTask(retryOnFail))
         /\ last' = Step(op, "chained", <<>>)

RunAllowed == isStopped \/ RunQueueFull \/ Created < budget.runs

\* run(retryOnFail) called by the initial kick, a direct caller, a live tick or a
\* change event
Run(retryOnFail) ==
    /\ RunAllowed
    /\ RunBody(retryOnFail, "run")
    /\ UNCHANGED <<cfg, budget, ctl, events, destroyed, canceled, active, irc, subsActive, runCount,
                   retryTimers, docs, feed, lastPushSequence, lastPullDocument>>

\* setTimeout(() => this.run(), this.retryTime) fires
RetryTimerFires ==
    /\ retryTimers > 0
    /\ RunAllowed
    /\ retryTimers' = retryTimers - 1
    /\ RunBody(TRUE, "retry")
    /\ UNCHANGED <<cfg, budget, ctl, events, destroyed, canceled, active, irc, subsActive, runCount,
                   docs, feed, lastPushSequence, lastPullDocument>>

\* ----------------------------------------------------------------- cancel()

\* the cycles that are executing when the state is cancelled or torn down
Interrupt(cs) ==
    [i \in DOMAIN cs |-> IF cs[i].pc # "queued" THEN [cs[i] EXCEPT !.interrupted = TRUE]
                         ELSE cs[i]]

CancelGuardOff == FALSE
\* cancel(): if (this.isStopped()) return PROMISE_RESOLVE_FALSE
CancelGuard == isStopped

Cancel ==
    /\ IF CancelGuard
       THEN /\ UNCHANGED <<canceled, subsActive, cycles>>
            /\ last' = Step("cancel", "false", <<>>)
       ELSE /\ subsActive' = FALSE
            /\ canceled' = TRUE
            /\ cycles' = Interrupt(cycles)
            /\ last' = Step("cancel", "true", << <<"canceled", TRUE>> >>)
    /\ events' = (IF CancelGuard THEN events ELSE <<>>)
    /\ UNCHANGED <<cfg, budget, ctl, destroyed, active, irc, runQueueCount, runCount, retryTimers,
                   docs, feed, lastPushSequence, lastPullDocument>>

\* The collection is destroyed: its destroyed flag is set and onDestroy resolves,
\* whose callback calls cancel(). The order of the two is the collection's, both
\* orders are taken.
CollectionDestroy ==
    /\ ~destroyed
    /\ destroyed' = TRUE
    /\ \E signalFirst \in BOOLEAN :
          IF signalFirst /\ ~CancelGuard
          THEN /\ subsActive' = FALSE
               /\ canceled' = TRUE
               /\ last' = Step("destroy", "true", << <<"canceled", TRUE>> >>)
          ELSE /\ UNCHANGED <<canceled, subsActive>>
               /\ last' = Step("destroy", "false", <<>>)
    /\ cycles' = Interrupt(cycles)
    /\ events' = (IF canceled' /\ ~canceled THEN <<>> ELSE events)
    /\ UNCHANGED <<cfg, budget, ctl, active, irc, runQueueCount, runCount, retryTimers,
                   docs, feed, lastPushSequence, lastPullDocument>>

\* The collection is destroyed and the callback of onDestroy runs before the
\* destroyed flag can be read: this.cancel() sees the flag still false.
DestroySignalledFirst ==
    /\ ~destroyed
    /\ destroyed' = TRUE
    /\ IF CancelGuard
       THEN /\ UNCHANGED <<canceled, subsActive>>
            /\ last' = Step("destroy", "false", <<>>)
       ELSE /\ subsActive' = FALSE
            /\ canceled' = TRUE
            /\ last' = Step("destroy", "true", << <<"canceled", TRUE>> >>)
    /\ cycles' = Interrupt(cycles)
    /\ events' = (IF CancelGuard THEN events ELSE <<>>)
    /\ UNCHANGED <<cfg, budget, ctl, active, irc, runQueueCount, runCount, retryTimers,
                   docs, feed, lastPushSequence, lastPullDocument>>

\* ------------------------------------------------------- other local writers

\* a write to the collection that is not this replication's pull
LocalWrite(id, content) ==
    /\ ~destroyed
    /\ Len(feed) + ReservedFrom(1) < budget.seq
    /\ docs' = [docs EXCEPT ![id] =
                   [content |-> content, height |-> docs[id].height + 1,
                    hash |-> LocalHash(content), by |-> "local"]]
    /\ feed' = Append(feed, id)
    /\ last' = Step("write", "-", <<>>)
    /\ events' = Emit(<< ChangeOf(id, LocalHash(content), "local") >>)
    /\ UNCHANGED <<cfg, budget, ctl, destroyed, canceled, active, irc, subsActive, runQueueCount,
                   runCount, cycles, retryTimers, lastPushSequence, lastPullDocument>>

\* ------------------------------------------- the change-event subscriber

ShouldWakeAlways(changeEvent) == TRUE
\* rev && !wasRevisionfromPullReplication(replicationIdentifier, rev)
ShouldWake(changeEvent) ==
    /\ changeEvent.hash.digest # "-"
    /\ ~wasRevisionfromPullReplication(Identity, changeEvent.hash)

\* collection.$.pipe(filter(cE => !cE.isLocal)).subscribe(...) gets the oldest event
ChangeEvent ==
    /\ Subscribed
    /\ events # <<>>
    /\ events' = Tail(events)
    /\ LET changeEvent == Head(events)
       IN  IF changeEvent.isLocal
           THEN /\ last' = Step("changeEvent", "filtered", <<>>)
                /\ UNCHANGED <<runQueueCount, cycles>>
           ELSE IF isStopped
           THEN /\ last' = Step("changeEvent", "returned", <<>>)
                /\ UNCHANGED <<runQueueCount, cycles>>
           ELSE IF ShouldWake(changeEvent)
           THEN /\ RunAllowed
                /\ RunBody(TRUE, "changeEvent")
           ELSE /\ last' = Step("changeEvent", "skipped", <<>>)
                /\ UNCHANGED <<runQueueCount, cycles>>
    /\ UNCHANGED <<cfg, budget, ctl, destroyed, canceled, active, irc, subsActive, runCount,
                   retryTimers, docs, feed, lastPushSequence, lastPullDocument>>

\* ------------------------------------------------- the end of a cycle

\* What a step of a cycle leaves: the task (at its next await, or done), the
\* emissions in order, the retry timers set, and whether
\* initialReplicationComplete was set.
Suspend(t, em) ==
    [task |-> t, done |-> FALSE, emits |-> em, timers |-> 0, ircSet |-> FALSE]

MaySetInitialCompleteAgain(t, willRetry) == t.retry /\ ~willRetry
\* run(): retryOnFail && !willRetry && initialReplicationComplete.getValue() === false
MaySetInitialComplete(t, willRetry) == t.retry /\ ~willRetry /\ irc = FALSE

\* the callback of run() after `await this._run(retryOnFail)` returned willRetry
Finish(t, willRetry, em, timers) ==
    LET setIrc == MaySetInitialComplete(t, willRetry)
    IN  [task |-> t, done |-> TRUE,
         emits |-> em \o << <<"active", FALSE>> >>
                   \o (IF setIrc THEN << <<"initialReplicationComplete", TRUE>> >>
                       ELSE <<>>),
         timers |-> timers, ircSet |-> setIrc]

AfterPullResultAlwaysRetries(t, ok, em) ==
    IF ~ok THEN Finish(t, TRUE, em, 1) ELSE Finish(t, FALSE, em, 0)
\* _run(): `const ok = await this.runPull()` returned
AfterPullResult(t, ok, em) ==
    IF ~ok /\ t.retry THEN Finish(t, TRUE, em, 1) ELSE Finish(t, FALSE, em, 0)

\* runPull() returns ok: a recursive call returns to `await this.runPull()`, whose
\* result is dropped and whose callers all return true
PullReturn(t, ok, em) ==
    AfterPullResult(ClearLocals([t EXCEPT !.nested = FALSE]), IF t.nested THEN TRUE ELSE ok, em)

EnterRunPullUnchecked(t, nested, em) ==
    Suspend([ClearLocals(t) EXCEPT !.nested = nested, !.pc = "getLastPull"], em)
\* runPull() up to its first await
EnterRunPull(t, nested, em) ==
    IF isStopped
    THEN PullReturn([t EXCEPT !.nested = nested], FALSE, em)
    ELSE Suspend([ClearLocals(t) EXCEPT !.nested = nested, !.pc = "getLastPull"], em)

\* runPush() up to its first await
EnterRunPush(t, nested, em) ==
    Suspend([ClearLocals(t) EXCEPT !.nested = nested, !.pc = "getChanges"], em)

\* _run(): `const ok = await this.runPush()` returned
AfterPushResult(t, ok, em) ==
    IF ~ok /\ t.retry THEN Finish(t, TRUE, em, 1)
    ELSE IF cfg.pull THEN EnterRunPull(t, FALSE, em)
    ELSE Finish(t, FALSE, em, 0)

\* runPush() returns ok: the result of a recursive call is dropped
PushReturn(t, ok, em) ==
    AfterPushResult(ClearLocals([t EXCEPT !.nested = FALSE]), IF t.nested THEN TRUE ELSE ok, em)

\* _run() after the idle wait
BeginBody(t, em) ==
    IF cfg.push THEN EnterRunPush(t, FALSE, em)
    ELSE IF cfg.pull THEN EnterRunPull(t, FALSE, em)
    ELSE Finish(t, FALSE, em, 0)

\* the variables every step of a cycle sets from what the step leaves
Apply(i, R, op, activeNow, called, arg) ==
    /\ cycles' = IF R.done THEN Remove(cycles, i) ELSE [cycles EXCEPT ![i] = R.task]
    /\ active' = IF R.done THEN FALSE ELSE activeNow
    /\ irc' = (irc \/ R.ircSet)
    /\ runQueueCount' = IF R.done THEN runQueueCount - 1 ELSE runQueueCount
    /\ retryTimers' = retryTimers + R.timers
    /\ last' = [op |-> op, ret |-> IF R.done THEN "done" ELSE R.task.pc,
                emits |-> R.emits, called |-> called, arg |-> arg,
                interrupted |-> R.done /\ cycles[i].interrupted]

\* ----------------------------------------------------------- the cycle

CanStartUnchained(i) == TRUE
\* run(): this.runningPromise = this.runningPromise.then(...): the callback runs
\* when every callback chained before it has finished
CanStart(i) == i = 1

\* the callback chained by run() starts: active, _run() up to its first await
StartCycle(i) ==
    /\ cycles[i].pc = "queued"
    /\ CanStart(i)
    /\ runCount' = runCount + 1
    /\ LET t == cycles[i]
           em == << <<"active", TRUE>> >>
       IN  Apply(i, IF irc THEN Suspend([t EXCEPT !.pc = "idle"], em) ELSE BeginBody(t, em),
                 "start", TRUE, "-", <<>>)
    /\ UNCHANGED <<cfg, budget, ctl, events, destroyed, canceled, subsActive, docs, feed,
                   lastPushSequence, lastPullDocument>>

\* await this.collection.database.requestIdlePromise() returns
IdleDone(i) ==
    /\ cycles[i].pc = "idle"
    /\ Apply(i, BeginBody(cycles[i], <<>>), "idle", active, "-", <<>>)
    /\ UNCHANGED <<cfg, budget, ctl, events, destroyed, canceled, subsActive, runCount, docs, feed,
                   lastPushSequence, lastPullDocument>>

\* the wire documents of a batch: without _rev
PushDocs(rows) == [k \in DOMAIN rows |-> [id |-> rows[k].id, content |-> rows[k].doc.content]]

GetChangesDoneSkipsEmpty(i) ==
    /\ cycles[i].pc = "getChanges"
    /\ LET res == getChangesSinceLastPushSequence(cfg.batchSize)
           t == [cycles[i] EXCEPT !.rows = res.rows, !.lastSeq = res.lastSequence,
                                  !.pc = "pushHandler"]
       IN  IF res.rows = <<>>
           THEN Apply(i, PushReturn(cycles[i], TRUE, <<>>), "getChanges", active, "-", <<>>)
           ELSE Apply(i, Suspend(t, <<>>), "getChanges", active, "push", PushDocs(res.rows))
    /\ UNCHANGED <<cfg, budget, ctl, events, destroyed, canceled, subsActive, runCount, docs, feed,
                   lastPushSequence, lastPullDocument>>
\* runPush(): getChangesSinceLastPushSequence returns, push.handler is called
GetChangesDone(i) ==
    /\ cycles[i].pc = "getChanges"
    /\ LET res == getChangesSinceLastPushSequence(cfg.batchSize)
           t == [cycles[i] EXCEPT !.rows = res.rows, !.lastSeq = res.lastSequence,
                                  !.pc = "pushHandler"]
       IN  Apply(i, Suspend(t, <<>>), "getChanges", active, "push", PushDocs(res.rows))
    /\ UNCHANGED <<cfg, budget, ctl, events, destroyed, canceled, subsActive, runCount, docs, feed,
                   lastPushSequence, lastPullDocument>>

\* runPush(): push.handler resolves: send$, setLastPushSequence is called
PushHandlerResolves(i) ==
    /\ cycles[i].pc = "pushHandler"
    /\ LET t == cycles[i]
           pushDocs == PushDocs(t.rows)
           em == [k \in DOMAIN pushDocs |-> <<"send", pushDocs[k]>>]
       IN  Apply(i, Suspend([t EXCEPT !.pc = "setPushSeq"], em), "pushed", active, "-", <<>>)
    /\ UNCHANGED <<cfg, budget, ctl, events, destroyed, canceled, subsActive, runCount, docs, feed,
                   lastPushSequence, lastPullDocument>>

PushHandlerRejectsAdvancing(i) ==
    /\ cycles[i].pc = "pushHandler"
    /\ lastPushSequence' = cycles[i].lastSeq
    /\ Apply(i, PushReturn(cycles[i], FALSE, << <<"error", "push">> >>),
             "pushFailed", active, "-", <<>>)
    /\ UNCHANGED <<cfg, budget, ctl, events, destroyed, canceled, subsActive, runCount, docs, feed,
                   lastPullDocument>>
\* runPush(): push.handler rejects: error$, return false
PushHandlerRejects(i) ==
    /\ cycles[i].pc = "pushHandler"
    /\ Apply(i, PushReturn(cycles[i], FALSE, << <<"error", "push">> >>),
             "pushFailed", active, "-", <<>>)
    /\ UNCHANGED <<cfg, budget, ctl, events, destroyed, canceled, subsActive, runCount, docs, feed,
                   lastPushSequence, lastPullDocument>>

SetLastPushSequenceDoneOnce(i) ==
    /\ cycles[i].pc = "setPushSeq"
    /\ lastPushSequence' = cycles[i].lastSeq
    /\ Apply(i, PushReturn(cycles[i], TRUE, <<>>), "setPushSeq", active, "-", <<>>)
    /\ events' = Emit(<< CheckpointChange >>)
    /\ UNCHANGED <<cfg, budget, ctl, destroyed, canceled, subsActive, runCount, docs, feed,
                   lastPullDocument>>
\* runPush(): setLastPushSequence returns; a batch with documents runs runPush() again
SetLastPushSequenceDone(i) ==
    /\ cycles[i].pc = "setPushSeq"
    /\ lastPushSequence' = cycles[i].lastSeq
    /\ LET t == cycles[i]
       IN  Apply(i, IF Len(t.rows) # 0 THEN EnterRunPush(t, TRUE, <<>>)
                    ELSE PushReturn(t, TRUE, <<>>),
                 "setPushSeq", active, "-", <<>>)
    /\ events' = Emit(<< CheckpointChange >>)
    /\ UNCHANGED <<cfg, budget, ctl, destroyed, canceled, subsActive, runCount, docs, feed,
                   lastPullDocument>>

\* runPull(): getLastPullDocument returns, pull.handler is called with it
GetLastPullDocumentDone(i) ==
    /\ cycles[i].pc = "getLastPull"
    /\ Apply(i, Suspend([cycles[i] EXCEPT !.latest = lastPullDocument, !.pc = "pullHandler"],
                         <<>>),
             "getLastPull", active, "pull", lastPullDocument)
    /\ UNCHANGED <<cfg, budget, ctl, events, destroyed, canceled, subsActive, runCount, docs, feed,
                   lastPushSequence, lastPullDocument>>

\* runPull(): pull.handler resolves with a page: no documents, or stopped: return
\* true; otherwise handleDocumentsFromRemote up to findDocumentsById
PullHandlerResolves(i, page, more) ==
    /\ cycles[i].pc = "pullHandler"
    /\ Len(feed) + ReservedFrom(1) + Len(page) <= budget.seq
    /\ LET t == cycles[i]
       IN  Apply(i, IF Len(page) = 0 THEN PullReturn(t, TRUE, <<>>)
                    ELSE IF isStopped THEN PullReturn(t, TRUE, <<>>)
                    ELSE Suspend([t EXCEPT !.pulled = page, !.hasMore = more,
                                           !.pc = "findDocs"], <<>>),
                 "pulled", active, "-", <<>>)
    /\ UNCHANGED <<cfg, budget, ctl, events, destroyed, canceled, subsActive, runCount, docs, feed,
                   lastPushSequence, lastPullDocument>>

PullHandlerRejectsUncaught(i) ==
    /\ cycles[i].pc = "pullHandler"
    /\ cycles' = Remove(cycles, i)
    /\ last' = [op |-> "pullFailed", ret |-> "thrown", emits |-> <<>>, called |-> "-",
                arg |-> <<>>, interrupted |-> FALSE]
    /\ UNCHANGED <<cfg, budget, ctl, events, destroyed, canceled, active, irc, subsActive, runQueueCount,
                   runCount, retryTimers, docs, feed, lastPushSequence, lastPullDocument>>
\* runPull(): pull.handler rejects, or a pulled document fails the schema
\* validation of dev-mode: both catch blocks do error$ and return false
PullHandlerRejects(i) ==
    /\ cycles[i].pc = "pullHandler"
    /\ Apply(i, PullReturn(cycles[i], FALSE, << <<"error", "pull">> >>),
             "pullFailed", active, "-", <<>>)
    /\ UNCHANGED <<cfg, budget, ctl, events, destroyed, canceled, subsActive, runCount, docs, feed,
                   lastPushSequence, lastPullDocument>>

PulledRevisionUntagged(doc, local) ==
    [content |-> doc.content,
     height |-> IF local.height > 0 THEN getHeightOfRevision(local) + 1 ELSE 1,
     hash |-> LocalHash(doc.content), by |-> "pull"]
\* handleDocumentsFromRemote(): the document to store for a pulled document, given
\* the state of the document in local storage
PulledRevision(doc, local) ==
    [content |-> doc.content,
     height |-> IF local.height > 0 THEN getHeightOfRevision(local) + 1 ELSE 1,
     hash |-> createRevisionForPulledDocument(Identity, doc), by |-> "pull"]

\* handleDocumentsFromRemote(): findDocumentsById returns, the documents to store
\* are built, bulkAddRevisions is called under lockedRun
FindDocumentsDone(i) ==
    /\ cycles[i].pc = "findDocs"
    /\ LET t == cycles[i]
           toStorageDocs == [k \in DOMAIN t.pulled |->
                                [id |-> t.pulled[k].id,
                                 doc |-> PulledRevision(t.pulled[k], docs[t.pulled[k].id])]]
       IN  Apply(i, Suspend([t EXCEPT !.toStore = toStorageDocs, !.pc = "bulkAdd"], <<>>),
                 "findDocs", active, "-", <<>>)
    /\ UNCHANGED <<cfg, budget, ctl, events, destroyed, canceled, subsActive, runCount, docs, feed,
                   lastPushSequence, lastPullDocument>>

\* bulkAddRevisions returns: the documents are stored; received$;
\* setLastPullDocument is called
BulkAddRevisionsDone(i) ==
    /\ cycles[i].pc = "bulkAdd"
    /\ LET t == cycles[i]
           em == [k \in DOMAIN t.pulled |-> <<"received", t.pulled[k]>>]
       IN  /\ docs' = [id \in Ids |->
                          IF \E k \in DOMAIN t.toStore : t.toStore[k].id = id
                          THEN t.toStore[CHOOSE k \in DOMAIN t.toStore : t.toStore[k].id = id].doc
                          ELSE docs[id]]
           /\ feed' = feed \o [k \in DOMAIN t.toStore |-> t.toStore[k].id]
           /\ Apply(i, Suspend([t EXCEPT !.toStore = <<>>, !.pc = "setPullDoc"], em),
                    "bulkAdd", active, "-", <<>>)
    /\ events' = Emit([k \in DOMAIN cycles[i].toStore |->
                         ChangeOf(cycles[i].toStore[k].id, cycles[i].toStore[k].doc.hash, "pull")])
    /\ UNCHANGED <<cfg, budget, ctl, destroyed, canceled, subsActive, runCount,
                   lastPushSequence, lastPullDocument>>

SetLastPullDocumentDoneNoDrain(i) ==
    /\ cycles[i].pc = "setPullDoc"
    /\ lastPullDocument' = cycles[i].pulled[Len(cycles[i].pulled)]
    /\ Apply(i, PullReturn(cycles[i], TRUE, <<>>), "setPullDoc", active, "-", <<>>)
    /\ events' = Emit(<< CheckpointChange >>)
    /\ UNCHANGED <<cfg, budget, ctl, destroyed, canceled, subsActive, runCount, docs, feed,
                   lastPushSequence>>
\* runPull(): setLastPullDocument returns; hasMoreDocuments runs runPull() again
SetLastPullDocumentDone(i) ==
    /\ cycles[i].pc = "setPullDoc"
    /\ lastPullDocument' = cycles[i].pulled[Len(cycles[i].pulled)]
    /\ LET t == cycles[i]
       IN  Apply(i, IF t.hasMore THEN EnterRunPull(t, TRUE, <<>>)
                    ELSE PullReturn(t, TRUE, <<>>),
                 "setPullDoc", active, "-", <<>>)
    /\ events' = Emit(<< CheckpointChange >>)
    /\ UNCHANGED <<cfg, budget, ctl, destroyed, canceled, subsActive, runCount, docs, feed,
                   lastPushSequence>>

\* An awaited call of the storage or of a checkpoint function rejects: nothing in
\* runPush, runPull, _run or the callback of run() catches it, so the callback
\* rejects and with it runningPromise. A callback chained onto a rejected
\* promise with then() is never called: the cycle stays where it is for good,
\* and so does everything chained behind it.
StorageRejects(i) ==
    /\ cycles[i].pc \in {"getChanges", "setPushSeq", "getLastPull", "findDocs", "bulkAdd",
                         "setPullDoc"}
    /\ cycles' = [cycles EXCEPT ![i] = [cycles[i] EXCEPT !.pc = "thrown"]]
    /\ last' = [op |-> "storageFailed", ret |-> "thrown", emits |-> <<>>, called |-> "-",
                arg |-> <<>>, interrupted |-> cycles[i].interrupted]
    /\ UNCHANGED <<cfg, budget, ctl, events, destroyed, canceled, active, irc, subsActive,
                   runQueueCount, runCount, retryTimers, docs, feed, lastPushSequence,
                   lastPullDocument>>

\* ------------------------------------------------ replicateRxCollection()

MustAwaitLeadershipAlways == ctl.waitForLeadership
\* if (waitForLeadership && collection.database.multiInstance)
MustAwaitLeadership == ctl.waitForLeadership /\ ctl.multiInstance

\* new RxReplicationStateBase(...), replicationState.run(), and the subscription
\* to collection.$ in the same turn
ConstructAndKick ==
    /\ ctl' = [ctl EXCEPT !.phase = "running"]
    /\ RunBody(TRUE, "kick")
    /\ UNCHANGED <<cfg, budget, events, destroyed, canceled, active, irc, subsActive, runCount,
                   retryTimers, docs, feed, lastPushSequence, lastPullDocument>>

\* replicateRxCollection() is called: it awaits the leadership or goes on
ReplicateStart ==
    /\ ctl.phase = "start"
    /\ IF MustAwaitLeadership
       THEN /\ ctl' = [ctl EXCEPT !.phase = "awaitLeader"]
            /\ last' = Step("replicate", "awaiting", <<>>)
            /\ UNCHANGED <<cfg, budget, events, destroyed, canceled, active, irc, subsActive,
                           runQueueCount, runCount, cycles, retryTimers, docs, feed,
                           lastPushSequence, lastPullDocument>>
       ELSE ConstructAndKick

\* the leader election of the database elects this instance
LeaderElected ==
    /\ ctl.phase # "direct"
    /\ ctl.multiInstance
    /\ ~ctl.leader
    /\ ctl' = [ctl EXCEPT !.leader = TRUE]
    /\ last' = Step("elected", "-", <<>>)
    /\ UNCHANGED <<cfg, budget, events, destroyed, canceled, active, irc, subsActive,
                   runQueueCount, runCount, cycles, retryTimers, docs, feed,
                   lastPushSequence, lastPullDocument>>

\* await collection.database.waitForLeadership() returns
AwaitLeaderDone ==
    /\ ctl.phase = "awaitLeader"
    /\ ctl.leader
    /\ ConstructAndKick

\* the sync interval: promiseWait(liveInterval) is over, run(false) is called.
\* (The loop awaits run(false) before it waits again; here a tick can come at any
\* time, which allows every behaviour of the loop.)
LiveIntervalTick ==
    /\ ctl.phase = "running"
    /\ cfg.live /\ cfg.pull
    /\ ~isStopped
    /\ RunAllowed
    /\ RunBody(FALSE, "tick")
    /\ UNCHANGED <<cfg, budget, ctl, events, destroyed, canceled, active, irc, subsActive,
                   runCount, retryTimers, docs, feed, lastPushSequence, lastPullDocument>>

\* the promise run() returns is settled: the callbacks chained up to the
\* target-th cycle have finished
RunningPromiseSettledEarly(target) == runCount >= target
RunningPromiseSettled(target) ==
    \/ runCount > target
    \/ runCount = target /\ InFlight = {}

\* the sync interval loop, one iteration: promiseWait(liveInterval) is over;
\* if (isStopped()) return; await run(false)
LiveLoopRuns ==
    /\ ctl.phase = "running"
    /\ cfg.live /\ cfg.pull
    /\ ctl.loop = "waiting"
    /\ IF isStopped
       THEN /\ ctl' = [ctl EXCEPT !.loop = "ended"]
            /\ last' = Step("tick", "ended", <<>>)
            /\ UNCHANGED <<runQueueCount, cycles>>
       ELSE /\ RunAllowed
            /\ RunBody(FALSE, "tick")
            /\ ctl' = [ctl EXCEPT !.loop = "awaiting",
                                  !.target = runCount + Len(cycles') - Cardinality(InFlight)]
    /\ UNCHANGED <<cfg, budget, events, destroyed, canceled, active, irc, subsActive,
                   runCount, retryTimers, docs, feed, lastPushSequence, lastPullDocument>>

\* the sync interval loop: `await replicationState.run(false)` returns and
\* while (!isStopped()) is evaluated
LiveLoopResumes ==
    /\ ctl.phase = "running"
    /\ ctl.loop = "awaiting"
    /\ RunningPromiseSettled(ctl.target)
    /\ ctl' = [ctl EXCEPT !.loop = IF isStopped THEN "ended" ELSE "waiting"]
    /\ last' = Step("tickDone", "-", <<>>)
    /\ UNCHANGED <<cfg, budget, events, destroyed, canceled, active, irc, subsActive,
                   runQueueCount, runCount, cycles, retryTimers, docs, feed,
                   lastPushSequence, lastPullDocument>>

\* the replication state exists
Constructed == ctl.phase \in {"direct", "running"}

\* ------------------------------------------------- a paginated remote

\* the documents of remote that come after the checkpoint document latest
RemoteAfter(remote, latest) ==
    IF latest = NullDoc THEN remote
    ELSE IF \E k \in DOMAIN remote : remote[k] = latest
    THEN SubSeq(remote, (CHOOSE k \in DOMAIN remote : remote[k] = latest) + 1, Len(remote))
    ELSE <<>>

\* what the pull handler of a remote that holds budget.remote and serves pages of
\* budget.pageSize documents answers to a call with latest
RemoteServes(latest) ==
    LET rest == RemoteAfter(budget.remote, latest)
        n == IF Len(rest) < budget.pageSize THEN Len(rest) ELSE budget.pageSize
    IN  [documents |-> SubSeq(rest, 1, n), hasMoreDocuments |-> Len(rest) > n]

\* runPull(): that pull handler resolves
PullHandlerServes(i) ==
    /\ cycles[i].pc = "pullHandler"
    /\ LET result == RemoteServes(cycles[i].latest)
       IN  PullHandlerResolves(i, result.documents, result.hasMoreDocuments)

\* ------------------------------------------------------ the specification

Configs ==
    { c \in [live : BOOLEAN, push : BOOLEAN, pull : BOOLEAN, batchSize : BatchSizes] :
        c.push \/ c.pull }

\* a replication state constructed directly, whoever calls run() on it
Direct == [phase |-> "direct"]

InitWith(b) ==
    /\ ctl = Direct
    /\ events = <<>>
    /\ cfg \in Configs
    /\ destroyed = FALSE
    /\ canceled = FALSE
    /\ active = FALSE
    /\ irc = FALSE
    /\ subsActive = TRUE
    /\ runQueueCount = 0
    /\ runCount = 0
    /\ cycles = <<>>
    /\ retryTimers = 0
    /\ docs = [i \in Ids |-> NoDoc]
    /\ feed = <<>>
    /\ lastPushSequence = 0
    /\ lastPullDocument = NullDoc
    /\ last = NoStep
    /\ budget = b

\* the state after the constructor
Init == InitWith([runs |-> MaxRuns, seq |-> MaxSeq])

Next ==
    \/ \E r \in BOOLEAN : Run(r)
    \/ RetryTimerFires
    \/ Cancel
    \/ CollectionDestroy
    \/ \E id \in Ids, c \in Contents : LocalWrite(id, c)
    \/ \E i \in DOMAIN cycles : StartCycle(i)
    \/ \E i \in DOMAIN cycles : IdleDone(i)
    \/ \E i \in DOMAIN cycles : GetChangesDone(i)
    \/ \E i \in DOMAIN cycles : PushHandlerResolves(i)
    \/ \E i \in DOMAIN cycles : PushHandlerRejects(i)
    \/ \E i \in DOMAIN cycles : SetLastPushSequenceDone(i)
    \/ \E i \in DOMAIN cycles : GetLastPullDocumentDone(i)
    \/ \E i \in DOMAIN cycles, page \in Pages, more \in BOOLEAN :
          PullHandlerResolves(i, page, more)
    \/ \E i \in DOMAIN cycles : PullHandlerRejects(i)
    \/ \E i \in DOMAIN cycles : FindDocumentsDone(i)
    \/ \E i \in DOMAIN cycles : BulkAddRevisionsDone(i)
    \/ \E i \in DOMAIN cycles : SetLastPullDocumentDone(i)

Spec == Init /\ [][Next]_vars

\* The queue of cycles alone: a collection nobody writes to and a remote without
\* documents, and more calls of run().
InitQueue == InitWith([runs |-> MaxQueueRuns, seq |-> 0])

NextQueue ==
    \/ \E r \in BOOLEAN : Run(r)
    \/ RetryTimerFires
    \/ Cancel
    \/ CollectionDestroy
    \/ \E i \in DOMAIN cycles : StartCycle(i)
    \/ \E i \in DOMAIN cycles : IdleDone(i)
    \/ \E i \in DOMAIN cycles : GetChangesDone(i)
    \/ \E i \in DOMAIN cycles : PushHandlerResolves(i)
    \/ \E i \in DOMAIN cycles : PushHandlerRejects(i)
    \/ \E i \in DOMAIN cycles : SetLastPushSequenceDone(i)
    \/ \E i \in DOMAIN cycles : GetLastPullDocumentDone(i)
    \/ \E i \in DOMAIN cycles : PullHandlerResolves(i, <<>>, FALSE)
    \/ \E i \in DOMAIN cycles : PullHandlerRejects(i)

SpecQueue == InitQueue /\ [][NextQueue]_vars

\* The data path: more entries of the change feed, on a collection that is not
\* torn down and a replication that is not cancelled (a one-shot replication
\* still stops when its initial replication is complete).
InitData == InitWith([runs |-> MaxRuns, seq |-> MaxDataSeq])

NextData ==
    \/ \E r \in BOOLEAN : Run(r)
    \/ RetryTimerFires
    \/ \E id \in Ids, c \in Contents : LocalWrite(id, c)
    \/ \E i \in DOMAIN cycles : StartCycle(i)
    \/ \E i \in DOMAIN cycles : IdleDone(i)
    \/ \E i \in DOMAIN cycles : GetChangesDone(i)
    \/ \E i \in DOMAIN cycles : PushHandlerResolves(i)
    \/ \E i \in DOMAIN cycles : PushHandlerRejects(i)
    \/ \E i \in DOMAIN cycles : SetLastPushSequenceDone(i)
    \/ \E i \in DOMAIN cycles : GetLastPullDocumentDone(i)
    \/ \E i \in DOMAIN cycles, page \in Pages, more \in BOOLEAN :
          PullHandlerResolves(i, page, more)
    \/ \E i \in DOMAIN cycles : PullHandlerRejects(i)
    \/ \E i \in DOMAIN cycles : FindDocumentsDone(i)
    \/ \E i \in DOMAIN cycles : BulkAddRevisionsDone(i)
    \/ \E i \in DOMAIN cycles : SetLastPullDocumentDone(i)

SpecData == InitData /\ [][NextData]_vars

\* A one-shot pull of a paginated remote: live = false, pull only; the remote
\* holds documents with distinct ids and its handler serves them in pages.
OneShotPull == [live |-> FALSE, push |-> FALSE, pull |-> TRUE, batchSize |-> 1]

Remotes ==
    { <<>> } \cup { <<d>> : d \in WireDocs }
    \cup { s \in { <<d, e>> : d \in WireDocs, e \in WireDocs } : s[1].id # s[2].id }

PageSizes == {1, 2}

InitDrain ==
    /\ \E r \in Remotes, p \in PageSizes :
          InitWith([runs |-> MaxRuns, seq |-> Len(r), remote |-> r, pageSize |-> p])
    /\ cfg = OneShotPull

\* run() is called as replicateRxCollection and the retry timer call it,
\* with retryOnFail = true
NextDrain ==
    \/ Run(TRUE)
    \/ RetryTimerFires
    \/ \E i \in DOMAIN cycles : StartCycle(i)
    \/ \E i \in DOMAIN cycles : IdleDone(i)
    \/ \E i \in DOMAIN cycles : GetLastPullDocumentDone(i)
    \/ \E i \in DOMAIN cycles : PullHandlerServes(i)
    \/ \E i \in DOMAIN cycles : FindDocumentsDone(i)
    \/ \E i \in DOMAIN cycles : BulkAddRevisionsDone(i)
    \/ \E i \in DOMAIN cycles : SetLastPullDocumentDone(i)

SpecDrain == InitDrain /\ [][NextDrain]_vars

\* The same one-shot pull with a pull handler that rejects a finite number of
\* times: a call is rejected only while a further cycle may still be chained.
PullHandlerRejectsFinitely(i) ==
    /\ Created < budget.runs
    /\ PullHandlerRejects(i)

\* a step of a cycle that does not depend on the handler failing
CycleStepRecover ==
    \E i \in DOMAIN cycles :
       \/ StartCycle(i)
       \/ IdleDone(i)
       \/ GetLastPullDocumentDone(i)
       \/ PullHandlerServes(i)
       \/ FindDocumentsDone(i)
       \/ BulkAddRevisionsDone(i)
       \/ SetLastPullDocumentDone(i)

NextRecover ==
    \/ Run(TRUE)
    \/ RetryTimerFires
    \/ CycleStepRecover
    \/ \E i \in DOMAIN cycles : PullHandlerRejectsFinitely(i)

\* The event loop runs every continuation that is ready, the timer fires, the
\* handler call settles, and replicateRxCollection calls run().
SpecRecover ==
    /\ InitDrain
    /\ [][NextRecover]_vars
    /\ WF_vars(Run(TRUE))
    /\ WF_vars(RetryTimerFires)
    /\ WF_vars(CycleStepRecover)

\* A push of local changes made before the replication starts: push only, one
\* change per document, nobody writes while the cycles run, the handler resolves.
PushIds == {"a", "b", "c"}
PushBatchSizes == {1, 2}

\* the change feeds of one change each to some of the documents
PushFeeds ==
    { f \in UNION { [1..n -> PushIds] : n \in 0..Cardinality(PushIds) } :
        \A j, k \in DOMAIN f : j # k => f[j] # f[k] }

InitPush ==
    /\ ctl = Direct
    /\ events = <<>>
    /\ cfg \in [live : BOOLEAN, push : {TRUE}, pull : {FALSE}, batchSize : PushBatchSizes]
    /\ destroyed = FALSE
    /\ canceled = FALSE
    /\ active = FALSE
    /\ irc = FALSE
    /\ subsActive = TRUE
    /\ runQueueCount = 0
    /\ runCount = 0
    /\ cycles = <<>>
    /\ retryTimers = 0
    /\ feed \in PushFeeds
    /\ docs = [i \in PushIds |->
                 IF \E k \in DOMAIN feed : feed[k] = i
                 THEN [content |-> "X", height |-> 1, hash |-> LocalHash("X"), by |-> "local"]
                 ELSE NoDoc]
    /\ lastPushSequence = 0
    /\ lastPullDocument = NullDoc
    /\ last = NoStep
    /\ budget = [runs |-> MaxRuns, seq |-> Len(feed)]

NextPush ==
    \/ Run(TRUE)
    \/ \E i \in DOMAIN cycles : StartCycle(i)
    \/ \E i \in DOMAIN cycles : IdleDone(i)
    \/ \E i \in DOMAIN cycles : GetChangesDone(i)
    \/ \E i \in DOMAIN cycles : PushHandlerResolves(i)
    \/ \E i \in DOMAIN cycles : SetLastPushSequenceDone(i)

SpecPush == InitPush /\ [][NextPush]_vars

\* A replication that only pulls and is cancelled at any moment: pages of up to
\* two documents, with or without more documents behind them.
InitPullCancel ==
    /\ InitWith([runs |-> MaxRuns, seq |-> MaxDataSeq])
    /\ cfg.pull /\ ~cfg.push

NextPullCancel ==
    \/ \E r \in BOOLEAN : Run(r)
    \/ RetryTimerFires
    \/ Cancel
    \/ \E id \in Ids, c \in Contents : LocalWrite(id, c)
    \/ \E i \in DOMAIN cycles : StartCycle(i)
    \/ \E i \in DOMAIN cycles : IdleDone(i)
    \/ \E i \in DOMAIN cycles : GetLastPullDocumentDone(i)
    \/ \E i \in DOMAIN cycles, page \in Pages, more \in BOOLEAN :
          PullHandlerResolves(i, page, more)
    \/ \E i \in DOMAIN cycles : PullHandlerRejects(i)
    \/ \E i \in DOMAIN cycles : FindDocumentsDone(i)
    \/ \E i \in DOMAIN cycles : BulkAddRevisionsDone(i)
    \/ \E i \in DOMAIN cycles : SetLastPullDocumentDone(i)

SpecPullCancel == InitPullCancel /\ [][NextPullCancel]_vars

\* cancel() is called while a call of the push or the pull handler is in flight
CancelInFlight ==
    /\ \E i \in DOMAIN cycles : cycles[i].pc \in {"pushHandler", "pullHandler"}
    /\ Cancel

\* A replication that is cancelled only while a handler call is in flight.
NextInFlight ==
    \/ \E r \in BOOLEAN : Run(r)
    \/ RetryTimerFires
    \/ CancelInFlight
    \/ \E id \in Ids, c \in Contents : LocalWrite(id, c)
    \/ \E i \in DOMAIN cycles : StartCycle(i)
    \/ \E i \in DOMAIN cycles : IdleDone(i)
    \/ \E i \in DOMAIN cycles : GetChangesDone(i)
    \/ \E i \in DOMAIN cycles : PushHandlerResolves(i)
    \/ \E i \in DOMAIN cycles : PushHandlerRejects(i)
    \/ \E i \in DOMAIN cycles : SetLastPushSequenceDone(i)
    \/ \E i \in DOMAIN cycles : GetLastPullDocumentDone(i)
    \/ \E i \in DOMAIN cycles, page \in Pages, more \in BOOLEAN :
          PullHandlerResolves(i, page, more)
    \/ \E i \in DOMAIN cycles : PullHandlerRejects(i)
    \/ \E i \in DOMAIN cycles : FindDocumentsDone(i)
    \/ \E i \in DOMAIN cycles : BulkAddRevisionsDone(i)
    \/ \E i \in DOMAIN cycles : SetLastPullDocumentDone(i)

SpecInFlight == Init /\ [][NextInFlight]_vars

\* A collection whose onDestroy callbacks run before its destroyed flag is set.
NextDestroy ==
    \/ \E r \in BOOLEAN : Run(r)
    \/ RetryTimerFires
    \/ Cancel
    \/ DestroySignalledFirst
    \/ \E id \in Ids, c \in Contents : LocalWrite(id, c)
    \/ \E i \in DOMAIN cycles : StartCycle(i)
    \/ \E i \in DOMAIN cycles : IdleDone(i)
    \/ \E i \in DOMAIN cycles : GetChangesDone(i)
    \/ \E i \in DOMAIN cycles : PushHandlerResolves(i)
    \/ \E i \in DOMAIN cycles : PushHandlerRejects(i)
    \/ \E i \in DOMAIN cycles : SetLastPushSequenceDone(i)
    \/ \E i \in DOMAIN cycles : GetLastPullDocumentDone(i)
    \/ \E i \in DOMAIN cycles, page \in Pages, more \in BOOLEAN :
          PullHandlerResolves(i, page, more)
    \/ \E i \in DOMAIN cycles : PullHandlerRejects(i)
    \/ \E i \in DOMAIN cycles : FindDocumentsDone(i)
    \/ \E i \in DOMAIN cycles : BulkAddRevisionsDone(i)
    \/ \E i \in DOMAIN cycles : SetLastPullDocumentDone(i)

SpecDestroy == Init /\ [][NextDestroy]_vars

\* The controller: replicateRxCollection() from its call on, a replication that
\* pushes, one document that the remote serves as X and a local writer rewrites
\* as Y. run() is called by the controller and the retry timer only.
Options ==
    [phase : {"start"}, waitForLeadership : BOOLEAN, multiInstance : BOOLEAN,
     leader : {FALSE}]

InitCtl ==
    /\ ctl \in Options
    /\ events = <<>>
    /\ cfg \in [live : BOOLEAN, push : {TRUE}, pull : BOOLEAN, batchSize : {1}]
    /\ destroyed = FALSE
    /\ canceled = FALSE
    /\ active = FALSE
    /\ irc = FALSE
    /\ subsActive = TRUE
    /\ runQueueCount = 0
    /\ runCount = 0
    /\ cycles = <<>>
    /\ retryTimers = 0
    /\ docs = [i \in Ids |-> NoDoc]
    /\ feed = <<>>
    /\ lastPushSequence = 0
    /\ lastPullDocument = NullDoc
    /\ last = NoStep
    /\ budget = [runs |-> MaxRuns, seq |-> MaxDataSeq]

NextCtl ==
    \/ ReplicateStart
    \/ LeaderElected
    \/ AwaitLeaderDone
    \/ LiveIntervalTick
    \/ ChangeEvent
    \/ RetryTimerFires
    \/ Constructed /\ Cancel
    \/ Constructed /\ LocalWrite("a", "Y")
    \/ \E i \in DOMAIN cycles : StartCycle(i)
    \/ \E i \in DOMAIN cycles : IdleDone(i)
    \/ \E i \in DOMAIN cycles : GetChangesDone(i)
    \/ \E i \in DOMAIN cycles : PushHandlerResolves(i)
    \/ \E i \in DOMAIN cycles : PushHandlerRejects(i)
    \/ \E i \in DOMAIN cycles : SetLastPushSequenceDone(i)
    \/ \E i \in DOMAIN cycles : GetLastPullDocumentDone(i)
    \/ \E i \in DOMAIN cycles, page \in {<<>>, << [id |-> "a", content |-> "X"] >>} :
          PullHandlerResolves(i, page, FALSE)
    \/ \E i \in DOMAIN cycles : PullHandlerRejects(i)
    \/ \E i \in DOMAIN cycles : FindDocumentsDone(i)
    \/ \E i \in DOMAIN cycles : BulkAddRevisionsDone(i)
    \/ \E i \in DOMAIN cycles : SetLastPullDocumentDone(i)

SpecCtl == InitCtl /\ [][NextCtl]_vars

\* A storage whose calls can reject.
NextThrow ==
    \/ \E r \in BOOLEAN : Run(r)
    \/ RetryTimerFires
    \/ Cancel
    \/ \E id \in Ids, c \in Contents : LocalWrite(id, c)
    \/ \E i \in DOMAIN cycles : StartCycle(i)
    \/ \E i \in DOMAIN cycles : IdleDone(i)
    \/ \E i \in DOMAIN cycles : GetChangesDone(i)
    \/ \E i \in DOMAIN cycles : PushHandlerResolves(i)
    \/ \E i \in DOMAIN cycles : PushHandlerRejects(i)
    \/ \E i \in DOMAIN cycles : SetLastPushSequenceDone(i)
    \/ \E i \in DOMAIN cycles : GetLastPullDocumentDone(i)
    \/ \E i \in DOMAIN cycles, page \in Pages, more \in BOOLEAN :
          PullHandlerResolves(i, page, more)
    \/ \E i \in DOMAIN cycles : PullHandlerRejects(i)
    \/ \E i \in DOMAIN cycles : FindDocumentsDone(i)
    \/ \E i \in DOMAIN cycles : BulkAddRevisionsDone(i)
    \/ \E i \in DOMAIN cycles : SetLastPullDocumentDone(i)
    \/ \E i \in DOMAIN cycles : StorageRejects(i)

SpecThrow == Init /\ [][NextThrow]_vars

\* The sync interval: a live replication from the call of replicateRxCollection
\* on, with the interval loop as the code runs it, handlers that resolve or
\* reject, and cancel().
InitPoll ==
    /\ ctl = [phase |-> "start", waitForLeadership |-> FALSE, multiInstance |-> FALSE,
              leader |-> FALSE, loop |-> "waiting", target |-> 0]
    /\ events = <<>>
    /\ cfg \in { c \in Configs : c.live }
    /\ destroyed = FALSE
    /\ canceled = FALSE
    /\ active = FALSE
    /\ irc = FALSE
    /\ subsActive = TRUE
    /\ runQueueCount = 0
    /\ runCount = 0
    /\ cycles = <<>>
    /\ retryTimers = 0
    /\ docs = [i \in Ids |-> NoDoc]
    /\ feed = <<>>
    /\ lastPushSequence = 0
    /\ lastPullDocument = NullDoc
    /\ last = NoStep
    /\ budget = [runs |-> MaxPollRuns, seq |-> MaxSeq]

\* a step of a cycle, whatever the handlers do
CycleStepPoll ==
    \E i \in DOMAIN cycles :
       \/ StartCycle(i)
       \/ IdleDone(i)
       \/ GetChangesDone(i)
       \/ PushHandlerResolves(i)
       \/ PushHandlerRejects(i)
       \/ SetLastPushSequenceDone(i)
       \/ GetLastPullDocumentDone(i)
       \/ \E page \in {<<>>, << [id |-> "a", content |-> "X"] >>} :
             PullHandlerResolves(i, page, FALSE)
       \/ PullHandlerRejects(i)
       \/ FindDocumentsDone(i)
       \/ BulkAddRevisionsDone(i)
       \/ SetLastPullDocumentDone(i)

NextPoll ==
    \/ ReplicateStart
    \/ LiveLoopRuns
    \/ LiveLoopResumes
    \/ ChangeEvent
    \/ RetryTimerFires
    \/ Constructed /\ Cancel
    \/ CycleStepPoll

\* The event loop runs every continuation that is ready, the timers fire and
\* the handler calls settle.
SpecPoll ==
    /\ InitPoll
    /\ [][NextPoll]_vars
    /\ WF_vars(ReplicateStart)
    /\ WF_vars(LiveLoopRuns)
    /\ WF_vars(LiveLoopResumes)
    /\ WF_vars(ChangeEvent)
    /\ WF_vars(RetryTimerFires)
    /\ WF_vars(CycleStepPoll)

\* A live replication that pushes and pulls, whose handlers always resolve and
\* that nobody cancels: the document a is written locally as Y and served by the
\* remote as X. Every write can wake the replication: the cycles that may be
\* chained are the first one and one for every entry of the change feed.
InitLive ==
    /\ ctl = [phase |-> "start", waitForLeadership |-> FALSE, multiInstance |-> FALSE,
              leader |-> FALSE]
    /\ events = <<>>
    /\ cfg = [live |-> TRUE, push |-> TRUE, pull |-> TRUE, batchSize |-> 1]
    /\ destroyed = FALSE
    /\ canceled = FALSE
    /\ active = FALSE
    /\ irc = FALSE
    /\ subsActive = TRUE
    /\ runQueueCount = 0
    /\ runCount = 0
    /\ cycles = <<>>
    /\ retryTimers = 0
    /\ docs = [i \in Ids |-> NoDoc]
    /\ feed = <<>>
    /\ lastPushSequence = 0
    /\ lastPullDocument = NullDoc
    /\ last = NoStep
    /\ budget = [runs |-> 1 + MaxLiveSeq, seq |-> MaxLiveSeq]

\* a step of a cycle whose handlers resolve
CycleStepLive ==
    \E i \in DOMAIN cycles :
       \/ StartCycle(i)
       \/ IdleDone(i)
       \/ GetChangesDone(i)
       \/ PushHandlerResolves(i)
       \/ SetLastPushSequenceDone(i)
       \/ GetLastPullDocumentDone(i)
       \/ \E page \in {<<>>, << [id |-> "a", content |-> "X"] >>} :
             PullHandlerResolves(i, page, FALSE)
       \/ FindDocumentsDone(i)
       \/ BulkAddRevisionsDone(i)
       \/ SetLastPullDocumentDone(i)

NextLive ==
    \/ ReplicateStart
    \/ ChangeEvent
    \/ Constructed /\ LocalWrite("a", "Y")
    \/ CycleStepLive

\* The event loop runs every continuation that is ready, the handler calls
\* settle and the change events are delivered.
SpecLive ==
    /\ InitLive
    /\ [][NextLive]_vars
    /\ WF_vars(ReplicateStart)
    /\ WF_vars(ChangeEvent)
    /\ WF_vars(CycleStepLive)

\* ------------------------------------------------------------------ claims

HandlerInFlight == { i \in DOMAIN cycles : cycles[i].pc \in {"pushHandler", "pullHandler"} }

\* C1: cycles of one replication state never overlap: at most one cycle is
\* executing at any instant, and so at most one call of the push handler or the
\* pull handler is in flight.
C1_SerializedCycles ==
    /\ Cardinality(InFlight) <= 1
    /\ Cardinality(HandlerInFlight) <= 1

\* a call of run() was chained while a handler call of the running cycle is in flight
C1_Witness ==
    /\ HandlerInFlight # {}
    /\ Queued # {}
    /\ last.op \in {"run", "retry"}
    /\ last.ret = "chained"

\* C2: bounded coalescing: the queue counter never exceeds 3, so behind a cycle in
\* flight at most two more cycles are chained, and a call of run() that finds the
\* counter above 2 chains no cycle.
C2_BoundedCoalescing ==
    /\ [](runQueueCount <= 3 /\ Len(cycles) <= 3)
    /\ [][runQueueCount > 2 => Len(cycles') <= Len(cycles)]_vars

\* a call of run() made while a cycle is in flight and two are waiting was absorbed
C2_Witness ==
    /\ runQueueCount = 3
    /\ InFlight # {}
    /\ last.op = "run"
    /\ last.ret = "full"

\* C3 as stated: behind the cycle in flight at most one cycle is waiting.
C3_AtMostOneFollower == InFlight # {} => Cardinality(Queued) <= 1

\* C3 amended: behind the cycle in flight at most two cycles are waiting.
C3_AtMostTwoFollowers == InFlight # {} => Cardinality(Queued) <= 2

C3_Witness ==
    /\ InFlight # {}
    /\ Cardinality(Queued) = 2
    /\ last.ret = "chained"

\* C4: echo suppression: a document stored by the pull of this identity carries a
\* pull-tagged revision, and the push handler is never called with a document
\* whose latest writer was the pull of this identity.
C4_EchoSuppression ==
    /\ \A id \in Ids :
          docs[id].by = "pull" => wasRevisionfromPullReplication(Identity, docs[id].hash)
    /\ \A i \in DOMAIN cycles :
          cycles[i].pc = "pushHandler" =>
             \A k \in DOMAIN cycles[i].rows : cycles[i].rows[k].doc.by # "pull"

\* a document was written locally and pushed, came back with the pull, and the
\* next push inspected its change and calls the handler without it
C4_Witness ==
    \E i \in DOMAIN cycles, id \in Ids :
       /\ cycles[i].pc = "pushHandler"
       /\ docs[id].by = "pull"
       /\ docs[id].height >= 2
       /\ lastPushSequence >= 1
       /\ \E k \in (lastPushSequence + 1)..cycles[i].lastSeq : feed[k] = id
       /\ \A k \in DOMAIN cycles[i].rows : cycles[i].rows[k].id # id

\* C5: the persisted lastPushSequence never decreases.
C5_MonotonicPushSequence == [][lastPushSequence' >= lastPushSequence]_vars

\* setLastPushSequence stored a higher value for the second time
C5_Witness ==
    /\ last.op = "setPushSeq"
    /\ lastPushSequence >= 2

\* C6: once initialReplicationComplete is true it stays true and is not emitted
\* again, whatever cycle, retry, cancel() or run() follows.
C6_InitialCompleteOnce ==
    [][irc => (/\ irc'
               /\ \A k \in DOMAIN last'.emits :
                     last'.emits[k][1] # "initialReplicationComplete")]_vars

\* a cycle finished while initialReplicationComplete was true already
C6_Witness ==
    /\ irc
    /\ last.ret = "done"
    /\ Emitted("initialReplicationComplete") = {}

\* C7 as stated: initialReplicationComplete is set only by a cycle that scheduled
\* no retry and during which the state was neither cancelled nor the collection
\* destroyed.
C7_NotSetByCancelledCycle ==
    [][(irc' /\ ~irc) => (~last'.interrupted /\ retryTimers' = retryTimers)]_vars

\* C8: cancel() is idempotent: canceled goes from false to true at most once, and
\* a call of cancel() on a stopped state changes nothing and emits nothing.
C8_CancelIdempotent ==
    [][/\ canceled =>
            (/\ canceled'
             /\ \A k \in DOMAIN last'.emits : last'.emits[k][1] # "canceled")
       /\ (last'.op = "cancel" /\ isStopped) =>
            (UNCHANGED progVars /\ last'.emits = <<>>)]_vars

\* cancel() was called on a cancelled state
C8_Witness ==
    /\ canceled
    /\ last.op = "cancel"
    /\ last.ret = "false"

\* C9 as stated: after canceled is true nothing is emitted on any observable.
C9_SilentAfterCancel == [][canceled => last'.emits = <<>>]_vars

\* C10 as stated: once isStopped() is true it stays true, no cycle begins and no
\* handler is called.
C10_StoppedIsTerminal ==
    [][isStopped => (isStopped' /\ runCount' = runCount /\ last'.called = "-")]_vars

\* the emissions of the last step on error$
ErrorsEmitted == Emitted("error")

\* C11: a rejection of the push or the pull handler is never thrown out of run():
\* the step that sees the rejection emits it exactly once on error$ and either
\* ends the cycle (active false, queue counter decremented, the chain goes on) or
\* goes on with the cycle; the queue counter always counts the callbacks chained
\* and not finished, and active is false whenever no cycle is executing.
C11_ErrorsFunneled ==
    /\ [](runQueueCount = Len(cycles) /\ (InFlight = {} => active = FALSE))
    /\ [][last'.op \in {"pushFailed", "pullFailed"} =>
             /\ Cardinality({ k \in DOMAIN last'.emits : last'.emits[k][1] = "error" }) = 1
             /\ \E k \in DOMAIN last'.emits :
                   last'.emits[k] = <<"error", IF last'.op = "pushFailed" THEN "push" ELSE "pull">>
             /\ IF last'.ret = "done"
                THEN /\ Len(cycles') = Len(cycles) - 1
                     /\ runQueueCount' = runQueueCount - 1
                     /\ active' = FALSE
                     /\ last'.emits[Len(last'.emits)] = <<"active", FALSE>>
                        \/ last'.emits[Len(last'.emits)] = <<"initialReplicationComplete", TRUE>>
                ELSE /\ Len(cycles') = Len(cycles)
                     /\ runQueueCount' = runQueueCount
                     /\ InFlight # {}]_vars

\* a pull handler rejected, the cycle ended and the next callback of the chain waits
C11_Witness ==
    /\ last.op = "pullFailed"
    /\ last.ret = "done"
    /\ ErrorsEmitted # {}
    /\ active = FALSE
    /\ Queued # {}

\* C12 as stated: a rejection of a handler in a cycle started with retryOnFail =
\* true, in the first or in a later batch or page, ends the cycle with a retry
\* scheduled and without setting initialReplicationComplete.
C12_FailureLeadsToRetry ==
    [][(last'.op \in {"pushFailed", "pullFailed"} /\ \E i \in InFlight : cycles[i].retry) =>
          (/\ last'.ret = "done"
           /\ retryTimers' = retryTimers + 1
           /\ irc' = irc)]_vars

\* the positions of a cycle inside runPush() and inside runPull()
PushPcs == {"getChanges", "pushHandler", "setPushSeq"}
PullPcs == {"getLastPull", "pullHandler", "findDocs", "bulkAdd", "setPullDoc"}

\* C13 as stated: within a cycle push precedes pull, and after a push handler
\* call of the cycle was rejected the cycle does not go on to runPull(), whose
\* next step calls the pull handler.
C13_NoPullAfterFailedPush ==
    [][/\ \A i \in DOMAIN cycles :
             (Len(cycles') = Len(cycles) /\ cycles[i].pc \in PullPcs) =>
                cycles'[i].pc \notin PushPcs
       /\ last'.op = "pushFailed" => last'.ret \notin PullPcs]_vars

\* the document that a pull of identity I stores for the wire document d in a
\* place that held no document
StoredByPull(d) ==
    docs[d.id] = [content |-> d.content, height |-> 1,
                  hash |-> createRevisionForPulledDocument(Identity, d), by |-> "pull"]

\* C14: a one-shot pull drains a paginated remote: the handler is called with the
\* last document of the previous page, once per page (at a call exactly the
\* documents up to its argument are stored, and the remote holds more after it),
\* runPull() calls itself again exactly when hasMoreDocuments is true, and when
\* initialReplicationComplete is set every document of the remote is stored at
\* height 1 with the pull-tagged hash, lastPullDocument is the last document of
\* the remote and isStopped() is true.
C14_DrainsPaginatedRemote ==
    /\ [](irc =>
            /\ \A k \in DOMAIN budget.remote : StoredByPull(budget.remote[k])
            /\ lastPullDocument = IF budget.remote = <<>> THEN NullDoc
                                  ELSE budget.remote[Len(budget.remote)]
            /\ isStopped)
    /\ [][last'.called = "pull" =>
            LET rest == RemoteAfter(budget.remote, last'.arg)
            IN  /\ last'.arg = lastPullDocument
                /\ last'.arg = NullDoc \/ rest # <<>>
                /\ \A k \in DOMAIN rest : docs[rest[k].id] = NoDoc
                /\ \A k \in 1..(Len(budget.remote) - Len(rest)) : StoredByPull(budget.remote[k])]_vars
    /\ [][last'.op = "setPullDoc" =>
            /\ lastPullDocument' = cycles[1].pulled[Len(cycles[1].pulled)]
            /\ (last'.ret = "getLastPull") <=> cycles[1].hasMore]_vars

\* S1: the remote served [d1] with more and [d2] without, and the cycle has ended
C14_Witness ==
    /\ budget.remote = << [id |-> "a", content |-> "X"], [id |-> "b", content |-> "X"] >>
    /\ budget.pageSize = 1
    /\ last.op = "setPullDoc"
    /\ last.ret = "done"
    /\ irc
    /\ cycles = <<>>
    /\ StoredByPull([id |-> "a", content |-> "X"])
    /\ StoredByPull([id |-> "b", content |-> "X"])
    /\ lastPullDocument = [id |-> "b", content |-> "X"]

\* the wire documents of the changes lo..hi of the feed
FeedDocs(lo, hi) ==
    [k \in 1..(hi - lo + 1) |-> [id |-> feed[lo + k - 1], content |-> docs[feed[lo + k - 1]].content]]

\* C15: push batch split: every call of the push handler gets the next changes
\* after lastPushSequence, in change order, batchSize of them or all that are
\* left; send$ emits the documents of the batch in that order; the checkpoint then
\* moves to the last change of the batch; and a cycle ends only when the
\* checkpoint is at the last change. So every changed document is handed over
\* exactly once, in successive batches.
C15_PushBatchSplit ==
    /\ [][last'.called = "push" =>
            LET left == Len(feed) - lastPushSequence
                n == IF left < cfg.batchSize THEN left ELSE cfg.batchSize
            IN  /\ last'.arg = FeedDocs(lastPushSequence + 1, lastPushSequence + n)
                /\ cycles'[1].lastSeq = lastPushSequence + n]_vars
    /\ [][last'.op = "pushed" =>
            last'.emits = [k \in DOMAIN cycles[1].rows |->
                             <<"send", [id |-> cycles[1].rows[k].id,
                                        content |-> cycles[1].rows[k].doc.content]>>]]_vars
    /\ [][last'.op = "setPushSeq" =>
            /\ lastPushSequence' = cycles[1].lastSeq
            /\ last'.ret = "done" => lastPushSequence' = Len(feed)]_vars

\* S2: batchSize 2 and the changes a, b, c: after [a, b] the handler got [c] and
\* send$ has emitted c
C15_Witness ==
    /\ cfg.batchSize = 2
    /\ feed = <<"a", "b", "c">>
    /\ lastPushSequence = 2
    /\ last.op = "pushed"
    /\ last.emits = << <<"send", [id |-> "c", content |-> "X"]>> >>
    /\ cycles[1].lastSeq = 3

\* C16 as stated: failure then recovery: every rejection of the pull handler is
\* emitted on error$ and followed by a retry, initialReplicationComplete is not
\* set by a cycle in which a handler call was rejected, it is set at most once,
\* and it is set eventually.
C16_FailureThenRecovery ==
    /\ [][last'.op = "pullFailed" =>
            /\ Cardinality({ k \in DOMAIN last'.emits : last'.emits[k][1] = "error" }) = 1
            /\ retryTimers' = retryTimers + 1
            /\ ~irc']_vars
    /\ [][irc => (irc' /\ \A k \in DOMAIN last'.emits :
                            last'.emits[k] # <<"initialReplicationComplete", TRUE>>)]_vars
    /\ <>irc


\* the documents with a change after lastPushSequence whose current revision
\* did not come from the pull
PendingIds ==
    { feed[k] : k \in { j \in DOMAIN feed : j > lastPushSequence
                                            /\ ~wasRevisionfromPullReplication(
                                                  Identity, docs[feed[j]].hash) } }

\* C17: change-event wake-up: the subscriber of a live, pushing replication calls
\* run() for a change event if and only if the event is not local, the state is
\* not stopped and the revision of the event's document is not pull-tagged for
\* this identity; for the event of a pull write it never calls run(); and every
\* call of the push handler hands over, with their current content, the
\* documents changed since the checkpoint whose revision is not pull-tagged
\* (when they fit into one batch), so a pulled document that a local writer has
\* rewritten is pushed with its new content.
C17_ChangeEventWakeUp ==
    /\ [][last'.op = "changeEvent" =>
            LET changeEvent == Head(events)
            IN  /\ cfg.live /\ cfg.push /\ ctl.phase = "running"
                /\ (last'.ret \in {"chained", "full"}) <=>
                      /\ ~changeEvent.isLocal
                      /\ ~isStopped
                      /\ changeEvent.hash.rep # Identity
                /\ changeEvent.by = "pull" => last'.ret \notin {"chained", "full"}
                /\ last'.ret = "chained" =>
                      /\ Len(cycles') = Len(cycles) + 1
                      /\ cycles'[Len(cycles')].retry]_vars
    /\ [][last'.called = "push" /\ Cardinality(PendingIds) <= cfg.batchSize =>
            \A id \in PendingIds :
                \E k \in DOMAIN last'.arg :
                    last'.arg[k] = [id |-> id, content |-> docs[id].content]]_vars

\* S4: a was pulled as X, a local writer made it Y, the change event of that
\* write chained a cycle after the first one (no cycle failed, and the interval
\* does not retry), and that cycle hands a with Y to the push handler
C17_Witness ==
    /\ ctl.phase = "running"
    /\ lastPullDocument = [id |-> "a", content |-> "X"]
    /\ docs["a"].content = "Y" /\ docs["a"].height >= 2
    /\ runCount = 2 /\ retryTimers = 0
    /\ cycles # <<>> /\ cycles[1].retry /\ cycles[1].pc = "pushHandler"
    /\ last.called = "push"
    /\ last.arg = << [id |-> "a", content |-> "Y"] >>


\* C18: cancel mid-pull: a bulk write of a pulled batch that is in progress
\* completes with every document of the batch, also when the state was
\* cancelled meanwhile: before it returns no document of the batch is visible,
\* when it returns all of them are; and once the state is cancelled the cycle
\* calls no handler after the bulk write: setLastPullDocument is the last thing
\* it does, and the recursive runPull() returns at once, even when
\* hasMoreDocuments was true.
C18_CancelMidPull ==
    /\ [](\A i \in DOMAIN cycles :
            cycles[i].pc = "bulkAdd" =>
                \A k \in DOMAIN cycles[i].toStore :
                    docs[cycles[i].toStore[k].id] # cycles[i].toStore[k].doc)
    /\ [][last'.op = "bulkAdd" =>
            /\ \A k \in DOMAIN cycles[1].toStore :
                  docs'[cycles[1].toStore[k].id] = cycles[1].toStore[k].doc
            /\ Len(feed') = Len(feed) + Len(cycles[1].toStore)
            /\ last'.called = "-"]_vars
    /\ [][canceled /\ last'.op = "setPullDoc" =>
            /\ last'.called = "-"
            /\ last'.ret = "done"
            /\ Len(cycles') = Len(cycles) - 1]_vars
    /\ [][canceled /\ cycles # <<>> /\ cycles[1].pc \in {"bulkAdd", "setPullDoc"} =>
            last'.called = "-"]_vars

\* S5: cancel() was just called while the bulk write of a page of two documents
\* with hasMoreDocuments = true is in progress
C18_Witness ==
    /\ last.op = "cancel" /\ last.ret = "true" /\ canceled
    /\ cycles # <<>>
    /\ cycles[1].pc = "bulkAdd"
    /\ cycles[1].interrupted
    /\ Len(cycles[1].toStore) = 2
    /\ cycles[1].hasMore


\* C19: leadership gating: with waitForLeadership on a multi-instance database,
\* as long as this instance is not elected leader there is no replication state:
\* no cycle is chained or has run, no handler is called, nothing is active. The
\* state is constructed only once the instance is the leader. On a database that
\* is not multi-instance replicateRxCollection never awaits the leadership: its
\* first step constructs the state and calls run().
C19_LeadershipGating ==
    /\ [](ctl.waitForLeadership /\ ctl.multiInstance /\ ~ctl.leader =>
            /\ ~Constructed
            /\ cycles = <<>> /\ runCount = 0 /\ runQueueCount = 0
            /\ ~active /\ ~irc
            /\ last.called = "-"
            /\ feed = <<>> /\ lastPushSequence = 0 /\ lastPullDocument = NullDoc)
    /\ [](~Constructed => cycles = <<>> /\ runCount = 0 /\ last.called = "-")
    /\ [](ctl.phase = "awaitLeader" => ctl.waitForLeadership /\ ctl.multiInstance)
    /\ [][ctl.phase = "start" /\ ~ctl.multiInstance =>
            /\ ctl'.phase = "running"
            /\ last'.op = "kick" /\ last'.ret = "chained"]_vars

\* S6: waitForLeadership on a multi-instance database: the instance was elected,
\* the state was constructed and its first cycle calls a handler
C19_Witness ==
    /\ ctl.waitForLeadership /\ ctl.multiInstance /\ ctl.leader
    /\ ctl.phase = "running"
    /\ runCount = 1
    /\ last.called \in {"push", "pull"}


\* C20 as stated: the result of a handler call that returns after the state was
\* cancelled is discarded: the step that sees the push or the pull handler
\* resolve emits nothing on send$ or received$, goes on to neither
\* setLastPushSequence nor the storing of the pulled documents, and leaves the
\* documents and both checkpoints as they are.
C20_InFlightResultsDiscarded ==
    [][canceled /\ cycles # <<>> /\ cycles[1].interrupted
          /\ last'.op \in {"pushed", "pulled"} =>
          /\ \A k \in DOMAIN last'.emits : last'.emits[k][1] \notin {"send", "received"}
          /\ last'.ret \notin {"setPushSeq", "findDocs"}
          /\ docs' = docs
          /\ lastPushSequence' = lastPushSequence
          /\ lastPullDocument' = lastPullDocument]_vars


\* C21 as stated: when the collection is destroyed while the state is not
\* cancelled, canceled becomes true and the subscriptions of subs are
\* unsubscribed.
C21_CancelledOnDestroy ==
    [][~destroyed /\ destroyed' /\ ~canceled => canceled' /\ ~subsActive']_vars


\* C22: a failed handler call leaves the replicated state as it was. The step
\* that sees push.handler reject keeps lastPushSequence, emits nothing on send$
\* and writes nothing, so every document of the failed batch is still among the
\* changes after the checkpoint; the step that sees pull.handler reject (or the
\* validation of a pulled document fail) writes no document, emits nothing on
\* received$ and keeps lastPullDocument.
C22_FailureChangesNothing ==
    /\ [][last'.op = "pushFailed" =>
            /\ lastPushSequence' = lastPushSequence
            /\ docs' = docs /\ feed' = feed /\ lastPullDocument' = lastPullDocument
            /\ \A k \in DOMAIN last'.emits : last'.emits[k][1] \notin {"send", "received"}
            /\ \A k \in DOMAIN cycles[1].rows : cycles[1].rows[k].id \in PendingIds
            /\ \A k \in DOMAIN cycles[1].rows :
                  \E j \in DOMAIN feed : j > lastPushSequence' /\ feed'[j] = cycles[1].rows[k].id]_vars
    /\ [][last'.op = "pullFailed" =>
            /\ lastPullDocument' = lastPullDocument
            /\ docs' = docs /\ feed' = feed /\ lastPushSequence' = lastPushSequence
            /\ \A k \in DOMAIN last'.emits : last'.emits[k][1] \notin {"send", "received"}]_vars

\* push.handler has just rejected a batch with the local document a; the
\* checkpoint is still before the change
C22_Witness ==
    /\ last.op = "pushFailed"
    /\ feed # <<>> /\ feed[1] = "a"
    /\ docs["a"].by = "local"
    /\ lastPushSequence = 0
    /\ "a" \in PendingIds


\* C23: a cycle started with retryOnFail = false schedules no retry timer and
\* does not set initialReplicationComplete: a timer is added, and the flag is
\* set, only by a step of a cycle started with retryOnFail = true. Every cycle
\* the interval requests is started with retryOnFail = false, so the ticks add
\* no retries.
C23_NoRetryFromIntervalCycles ==
    /\ [][(retryTimers' > retryTimers \/ (irc' /\ ~irc)) =>
            cycles # <<>> /\ cycles[1].pc # "queued" /\ cycles[1].retry]_vars
    /\ [][last'.op = "tick" /\ last'.ret = "chained" =>
            /\ Len(cycles') = Len(cycles) + 1
            /\ ~cycles'[Len(cycles')].retry]_vars
    /\ [][cycles # <<>> /\ ~cycles[1].retry /\ last'.op \in {"pushFailed", "pullFailed"} =>
            /\ retryTimers' = retryTimers
            /\ irc' = irc]_vars

\* the first cycle succeeded; the cycle of an interval tick has just ended with
\* a rejection of the pull handler, and no timer is pending
C23_Witness ==
    /\ ctl.phase = "running"
    /\ cfg.live /\ cfg.pull
    /\ ~canceled
    /\ last.op = "pullFailed" /\ last.ret = "done"
    /\ runCount = 2
    /\ retryTimers = 0


\* C24 as stated: revision arithmetic of the pull: the write of a pulled batch
\* stores every document with the pull hash of this identity, at height h + 1
\* when the document is stored locally at height h and at height 1 when it is
\* not, so the height of the stored revision strictly increases with the write.
C24_RevisionArithmetic ==
    [][last'.op = "bulkAdd" =>
          \A k \in DOMAIN cycles[1].pulled :
              LET doc == cycles[1].pulled[k]
                  before == docs[doc.id]
                  after == docs'[doc.id]
              IN  /\ after.hash = createRevisionForPulledDocument(Identity, doc)
                  /\ wasRevisionfromPullReplication(Identity, after.hash)
                  /\ after.height = (IF before = NoDoc THEN 1 ELSE before.height + 1)
                  /\ after.height > before.height]_vars


\* C25 as stated: no local write is lost: in a live replication with push that
\* is not stopped and whose handlers succeed, after every local write of a
\* document the push handler is eventually called with that document.
C25_NoWriteLost ==
    (last.op = "write") ~>
        (last.called = "push" /\ \E k \in DOMAIN last.arg : last.arg[k].id = "a")


\* C26: live polling: the interval loop exists only in a live replication with
\* pull; every cycle it requests is started with retryOnFail = false; it
\* requests one cycle at a time, the one before has finished; it requests none
\* once the state is stopped; and as long as the state is not stopped it goes
\* on requesting cycles, also after cycles in which a handler rejected, so the
\* cycles run up to any number.
C26_LivePolling ==
    /\ [][last'.op \in {"tick", "tickDone"} => cfg.live /\ cfg.pull /\ Constructed]_vars
    /\ [][last'.op = "tick" /\ last'.ret = "chained" =>
            /\ ~isStopped
            /\ ~cycles'[Len(cycles')].retry
            /\ \A i \in DOMAIN cycles : cycles[i].retry]_vars
    /\ [][last'.op = "tick" /\ isStopped =>
            /\ last'.ret = "ended"
            /\ cycles' = cycles
            /\ ctl'.loop = "ended"]_vars
    /\ [](ctl.loop = "ended" => isStopped)
    /\ (cfg.pull => <>(isStopped \/ Created >= budget.runs))

\* two cycles have run and finished, no retry is pending, and the loop has just
\* requested a further cycle, the third, which it awaits
C26_Witness ==
    /\ last.op = "tick" /\ last.ret = "chained"
    /\ runCount = 2
    /\ Len(cycles) = 1
    /\ retryTimers = 0
    /\ irc /\ ~canceled
    /\ ctl.loop = "awaiting" /\ ctl.target = 3


\* C27 as stated: a cycle that ends with an exception does not block the
\* replication: after the step in which a call of the storage rejected, active
\* is false and the queue counter is the number of callbacks still queued.
C27_ExceptionDoesNotBlock ==
    [][last'.op = "storageFailed" =>
          /\ ~active'
          /\ runQueueCount' = Cardinality({ i \in DOMAIN cycles' : cycles'[i].pc = "queued" })]_vars


\* C28 as stated: the push handler is never called with an empty list of
\* documents.
C28_NoEmptyPush == [][last'.called = "push" => last'.arg # <<>>]_vars

\* C28, corrected: runPush hands every batch it collects to the push handler,
\* also an empty one: the list is empty exactly when no change after the
\* checkpoint is left to push. A batch with documents moves the checkpoint
\* forward and is followed by another runPush(); the empty batch ends the drain.
\* So a cycle without unpushed changes calls the handler once, with an empty
\* list, and a drain ends with one such call after finitely many batches.
C28_EmptyPushEndsDrain ==
    /\ [][last'.op = "getChanges" =>
            /\ last'.called = "push"
            /\ (last'.arg = <<>>) <=> (PendingIds = {})]_vars
    /\ [][last'.op = "setPushSeq" =>
            IF cycles[1].rows # <<>>
            THEN /\ lastPushSequence' > lastPushSequence
                 /\ last'.ret = "getChanges"
            ELSE /\ lastPushSequence' = lastPushSequence
                 /\ last'.ret = "done"]_vars

\* at the end of the drain of the changes a, b the handler is called with an
\* empty list
C28_Witness ==
    /\ feed = <<"a", "b">>
    /\ lastPushSequence = 2
    /\ cycles # <<>> /\ cycles[1].nested /\ cycles[1].pc = "pushHandler"
    /\ last.called = "push"
    /\ last.arg = <<>>

=============================================================================
